---------------------------- MODULE Spec2Model ----------------------------
(***************************************************************************)
(* A model of the single-table DynamoDB loader and query layer of          *)
(* problem2: load_data.py (normalisation, keyword extraction, fan-out of   *)
(* one paper into CATEGORY / AUTHOR / KEYWORD / PAPER items, batched       *)
(* upsert), query_papers.py (the five key-condition queries) and the       *)
(* by-id branch of api_server.py.                                          *)
(*                                                                         *)
(* Python strings are sequences of one-character strings, compared by      *)
(* code point as DynamoDB compares sort keys.  JSON values of the input    *)
(* feed are tagged records (JStr, JNum, JNull, JList); a raw paper is a    *)
(* record whose fields are the keys present in the JSON object.            *)
(***************************************************************************)
EXTENDS Integers, Sequences, FiniteSets, Bags, TLC

(***************************************************************************)
(* Characters and strings                                                  *)
(***************************************************************************)

\* Printable ASCII in code-point order, starting at code point 32 (the
\* double quote, backslash and backtick, unused by the inputs, are spelled out).
Ascii ==
    <<
      " ","!","DQUOTE","#","$","%","&","'","(",")","*","+",",","-",".","/",
      "0","1","2","3","4","5","6","7","8","9",":",";","<","=",">","?","@",
      "A","B","C","D","E","F","G","H","I","J","K","L","M","N","O","P","Q",
      "R","S","T","U","V","W","X","Y","Z","[","BACKSLASH","]","^","_",
      "BACKTICK","a","b","c","d","e","f","g","h","i","j","k","l","m","n",
      "o","p","q","r","s","t","u","v","w","x","y","z","{","|","}","~" >>

\* ord(c) for the characters the model uses.
OrdTable ==
    [c \in {Ascii[i] : i \in 1..Len(Ascii)} \cup {"\t", "\n"} |->
        IF c = "\t" THEN 9
        ELSE IF c = "\n" THEN 10
        ELSE 31 + (CHOOSE i \in 1..Len(Ascii) : Ascii[i] = c)]

Ord(c) == OrdTable[c]

Min(a, b) == IF a <= b THEN a ELSE b

Max(a, b) == IF a >= b THEN a ELSE b

\* a < b for Python str / DynamoDB string keys: first differing code point,
\* a proper prefix sorting first.
StrLess(a, b) ==
    LET n == Min(Len(a), Len(b))
        diff == {i \in 1..n : a[i] # b[i]}
    IN  IF diff = {}
        THEN Len(a) < Len(b)
        ELSE LET i == CHOOSE k \in diff : \A m \in diff : k <= m
             IN  Ord(a[i]) < Ord(b[i])

StrLeq(a, b) == a = b \/ StrLess(a, b)

UpperLetters == <<"A","B","C","D","E","F","G","H","I","J","K","L","M","N","O","P","Q","R","S","T","U","V","W","X","Y","Z">>

LowerLetters == <<"a","b","c","d","e","f","g","h","i","j","k","l","m","n","o","p","q","r","s","t","u","v","w","x","y","z">>

Digits == <<"0","1","2","3","4","5","6","7","8","9">>

Range(f) == {f[i] : i \in DOMAIN f}

\* [a-zA-Z]
IsAlpha(c) == c \in Range(UpperLetters) \cup Range(LowerLetters)

IsDigit(c) == c \in Range(Digits)

\* str.isspace for the whitespace the inputs contain
IsSpace(c) == c \in {" ", "\t", "\n"}

LowerChar(c) ==
    IF c \in Range(UpperLetters)
    THEN LowerLetters[CHOOSE i \in 1..26 : UpperLetters[i] = c]
    ELSE c

\* str.lower()
lower(s) == [i \in 1..Len(s) |-> LowerChar(s[i])]

\* str.strip(): drop leading and trailing whitespace
strip(s) ==
    LET keep == {i \in 1..Len(s) : ~IsSpace(s[i])}
    IN  IF keep = {} THEN <<>>
        ELSE LET lo == CHOOSE i \in keep : \A k \in keep : i <= k
                 hi == CHOOSE i \in keep : \A k \in keep : i >= k
             IN  SubSeq(s, lo, hi)

\* s.startswith(p)
StartsWith(s, p) == Len(p) <= Len(s) /\ SubSeq(s, 1, Len(p)) = p

\* s[:n]
Prefix(s, n) == SubSeq(s, 1, Min(n, Len(s)))

(***************************************************************************)
(* extract_keywords                                                        *)
(***************************************************************************)

STOPWORDS ==
    { <<"t","h","e">>,
      <<"a">>,
      <<"a","n">>,
      <<"a","n","d">>,
      <<"o","r">>,
      <<"b","u","t">>,
      <<"i","n">>,
      <<"o","n">>,
      <<"a","t">>,
      <<"t","o">>,
      <<"f","o","r">>,
      <<"o","f">>,
      <<"w","i","t","h">>,
      <<"b","y">>,
      <<"f","r","o","m">>,
      <<"u","p">>,
      <<"a","b","o","u","t">>,
      <<"i","n","t","o">>,
      <<"t","h","r","o","u","g","h">>,
      <<"d","u","r","i","n","g">>,
      <<"i","s">>,
      <<"a","r","e">>,
      <<"w","a","s">>,
      <<"w","e","r","e">>,
      <<"b","e">>,
      <<"b","e","e","n">>,
      <<"b","e","i","n","g">>,
      <<"h","a","v","e">>,
      <<"h","a","s">>,
      <<"h","a","d">>,
      <<"d","o">>,
      <<"d","o","e","s">>,
      <<"d","i","d">>,
      <<"w","i","l","l">>,
      <<"w","o","u","l","d">>,
      <<"c","o","u","l","d">>,
      <<"s","h","o","u","l","d">>,
      <<"m","a","y">>,
      <<"m","i","g","h","t">>,
      <<"c","a","n">>,
      <<"t","h","i","s">>,
      <<"t","h","a","t">>,
      <<"t","h","e","s","e">>,
      <<"t","h","o","s","e">>,
      <<"w","e">>,
      <<"o","u","r">>,
      <<"u","s","e">>,
      <<"u","s","i","n","g">>,
      <<"b","a","s","e","d">>,
      <<"a","p","p","r","o","a","c","h">>,
      <<"m","e","t","h","o","d">>,
      <<"p","a","p","e","r">>,
      <<"p","r","o","p","o","s","e">>,
      <<"p","r","o","p","o","s","e","d">>,
      <<"s","h","o","w">> }

\* re.findall(r"[a-zA-Z]+", s): the maximal runs of ASCII letters, in order.
\* cur is the run being read at position i.
RECURSIVE FindAll(_, _, _)
FindAll(s, i, cur) ==
    IF i > Len(s)
    THEN IF cur = <<>> THEN <<>> ELSE <<cur>>
    ELSE IF IsAlpha(s[i])
         THEN FindAll(s, i + 1, Append(cur, s[i]))
         ELSE (IF cur = <<>> THEN <<>> ELSE <<cur>>) \o FindAll(s, i + 1, <<>>)

\* [t for t in tokens if t not in STOPWORDS]
DropStopwords(tokens) == SelectSeq(tokens, LAMBDA t : t \notin STOPWORDS)

\* Counter(tokens): (word, count) pairs in order of first occurrence.
RECURSIVE Counter(_)
Counter(tokens) ==
    IF tokens = <<>> THEN <<>>
    ELSE LET init == Counter(SubSeq(tokens, 1, Len(tokens) - 1))
             t == tokens[Len(tokens)]
             at == {i \in 1..Len(init) : init[i].w = t}
         IN  IF at = {}
             THEN Append(init, [w |-> t, n |-> 1])
             ELSE [i \in 1..Len(init) |->
                     IF i \in at THEN [w |-> t, n |-> init[i].n + 1] ELSE init[i]]

\* A sort that puts an entry before the earlier entries of the same count
RECURSIVE SortByCountDescUnstable(_)
SortByCountDescUnstable(items) ==
    IF items = <<>> THEN <<>>
    ELSE LET init == SortByCountDescUnstable(SubSeq(items, 1, Len(items) - 1))
             e == items[Len(items)]
             k == Cardinality({i \in 1..Len(init) : init[i].n > e.n})
         IN  SubSeq(init, 1, k) \o <<e>> \o SubSeq(init, k + 1, Len(init))

\* sorted(items, key=count, reverse=True): stable, so equal counts keep the
\* counter first-occurrence order.
RECURSIVE SortByCountDesc(_)
SortByCountDesc(items) ==
    IF items = <<>> THEN <<>>
    ELSE LET init == SortByCountDesc(SubSeq(items, 1, Len(items) - 1))
             e == items[Len(items)]
             k == Cardinality({i \in 1..Len(init) : init[i].n >= e.n})
         IN  SubSeq(init, 1, k) \o <<e>> \o SubSeq(init, k + 1, Len(init))

\* Counter.most_common(n) = heapq.nlargest(n, items, key=count)
most_common(counter, n) ==
    LET sorted == SortByCountDesc(counter)
    IN  SubSeq(sorted, 1, Min(Max(n, 0), Len(sorted)))

extract_keywords(abstract, max_keywords) ==
    IF abstract = <<>> THEN <<>>
    ELSE LET tokens == DropStopwords(FindAll(lower(abstract), 1, <<>>))
         IN  IF tokens = <<>> THEN <<>>
             ELSE LET top == most_common(Counter(tokens), max_keywords)
                  IN  [i \in 1..Len(top) |-> top[i].w]

(***************************************************************************)
(* JSON values of the input feed and the Python operations on them         *)
(***************************************************************************)

JStr(s) == [t |-> "str", v |-> s]

JNum(n) == [t |-> "num", v |-> n]

JNull == [t |-> "null"]

JList(l) == [t |-> "list", v |-> l]

\* bool(v)
Truthy(v) ==
    CASE v.t = "str" -> v.v # <<>>
      [] v.t = "num" -> v.v # 0
      [] v.t = "list" -> v.v # <<>>
      [] v.t = "null" -> FALSE

\* paper.get(key): None when the key is absent
Get(paper, key) == IF key \in DOMAIN paper THEN paper[key] ELSE JNull

\* paper.get(key, default)
GetDefault(paper, key, default) ==
    IF key \in DOMAIN paper THEN paper[key] ELSE default

\* a or b
PyOr(a, b) == IF Truthy(a) THEN a ELSE b

RECURSIVE DecimalStr(_)
DecimalStr(n) ==
    IF n < 10 THEN <<Digits[n + 1]>>
    ELSE Append(DecimalStr(n \div 10), Digits[(n % 10) + 1])

\* str(v) and f"{v}" for the scalars of the feed
PyStr(v) ==
    CASE v.t = "str" -> v.v
      [] v.t = "null" -> <<"N","o","n","e">>
      [] v.t = "num" ->
            IF v.v < 0 THEN <<"-">> \o DecimalStr(0 - v.v) ELSE DecimalStr(v.v)

\* isinstance(v, list)
IsList(v) == v.t = "list"

\* s.replace(pat, rep): every non-overlapping occurrence, left to right
RECURSIVE Replace(_, _, _)
Replace(s, pat, rep) ==
    IF Len(s) < Len(pat) THEN s
    ELSE IF StartsWith(s, pat)
         THEN rep \o Replace(SubSeq(s, Len(pat) + 1, Len(s)), pat, rep)
         ELSE <<s[1]>> \o Replace(Tail(s), pat, rep)

(***************************************************************************)
(* normalize_published                                                     *)
(***************************************************************************)

DigitVal(c) == (CHOOSE i \in 1..10 : Digits[i] = c) - 1

\* int(s) for a string of digits
RECURSIVE Num(_)
Num(s) ==
    IF s = <<>> THEN 0
    ELSE 10 * Num(SubSeq(s, 1, Len(s) - 1)) + DigitVal(s[Len(s)])

\* n formatted with at least w digits (zero padded), as %04d / %02d
RECURSIVE Pad(_, _)
Pad(n, w) ==
    LET d == DecimalStr(n)
    IN  IF Len(d) >= w THEN d ELSE <<"0">> \o Pad(n, w - 1) 

IsLeap(y) == (y % 4 = 0 /\ y % 100 # 0) \/ y % 400 = 0

DaysInMonth(y, m) ==
    IF m = 2 THEN (IF IsLeap(y) THEN 29 ELSE 28)
    ELSE IF m \in {4, 6, 9, 11} THEN 30 ELSE 31

ParseFail == [ok |-> FALSE]

\* "HH", "HH:MM" or "HH:MM:SS"
ParseTime(t) ==
    LET shape ==
            /\ Len(t) \in {2, 5, 8}
            /\ \A i \in 1..Len(t) :
                  IF i \in {3, 6} THEN t[i] = ":" ELSE IsDigit(t[i])
    IN  IF ~shape THEN ParseFail
        ELSE LET h == Num(SubSeq(t, 1, 2))
                 mi == IF Len(t) >= 5 THEN Num(SubSeq(t, 4, 5)) ELSE 0
                 se == IF Len(t) = 8 THEN Num(SubSeq(t, 7, 8)) ELSE 0
             IN  IF h <= 23 /\ mi <= 59 /\ se <= 59
                 THEN [ok |-> TRUE, h |-> h, mi |-> mi, se |-> se]
                 ELSE ParseFail

\* The date part "YYYY-MM-DD"
ParseDate(d) ==
    LET shape == \A i \in 1..10 :
                    IF i \in {5, 8} THEN d[i] = "-" ELSE IsDigit(d[i])
    IN  IF ~shape THEN ParseFail
        ELSE LET y == Num(SubSeq(d, 1, 4))
                 mo == Num(SubSeq(d, 6, 7))
                 dd == Num(SubSeq(d, 9, 10))
             IN  IF y >= 1 /\ mo \in 1..12 /\ dd >= 1 /\ dd <= DaysInMonth(y, mo)
                 THEN [ok |-> TRUE, y |-> y, mo |-> mo, d |-> dd]
                 ELSE ParseFail

\* The offset "HH:MM" after its sign
ParseOffset(o, sign) ==
    LET shape == /\ Len(o) = 5
                 /\ \A i \in 1..5 : IF i = 3 THEN o[i] = ":" ELSE IsDigit(o[i])
    IN  IF ~shape THEN ParseFail
        ELSE LET oh == Num(SubSeq(o, 1, 2))
                 om == Num(SubSeq(o, 4, 5))
             IN  IF oh <= 23 /\ om <= 59
                 THEN [ok |-> TRUE,
                       off |-> IF sign = "-" THEN 0 - (60 * oh + om)
                               ELSE 60 * oh + om]
                 ELSE ParseFail

\* The datetime of a parsed date, time and offset (tz.ok: an offset is given)
MakeDatetime(date, tm, aware, tz) ==
    IF date.ok /\ tm.ok /\ (aware => tz.ok)
    THEN [ok |-> TRUE, y |-> date.y, mo |-> date.mo, d |-> date.d,
          h |-> tm.h, mi |-> tm.mi, se |-> tm.se,
          aware |-> aware, off |-> IF aware THEN tz.off ELSE 0]
    ELSE ParseFail

\* The time string t after the separator: the offset starts at its first sign
ParseTimeAndOffset(date, t, signs) ==
    IF signs = {}
    THEN MakeDatetime(date, ParseTime(t), FALSE, ParseFail)
    ELSE LET p == CHOOSE i \in signs : \A k \in signs : i <= k
         IN  MakeDatetime(date, ParseTime(SubSeq(t, 1, p - 1)), TRUE,
                          ParseOffset(SubSeq(t, p + 1, Len(t)), t[p]))

NoTime == [ok |-> TRUE, h |-> 0, mi |-> 0, se |-> 0]

SignsIn(t) == {i \in 1..Len(t) : t[i] \in {"+", "-"}}

\* datetime.fromisoformat(s) for "YYYY-MM-DD", then any separator character
\* and a time HH[:MM[:SS]], then optionally an offset +HH:MM or -HH:MM
\* (fractional seconds do not occur in the inputs).  [ok |-> FALSE] stands
\* for ValueError.
fromisoformat(s) ==
    IF Len(s) < 10 \/ Len(s) = 11 THEN ParseFail
    ELSE IF Len(s) = 10
    THEN MakeDatetime(ParseDate(s), NoTime, FALSE, ParseFail)
    ELSE ParseTimeAndOffset(ParseDate(SubSeq(s, 1, 10)),
                            SubSeq(s, 12, Len(s)),
                            SignsIn(SubSeq(s, 12, Len(s))))

\* dt.date().isoformat()
DateIsoformat(dt) ==
    Pad(dt.y, 4) \o <<"-">> \o Pad(dt.mo, 2) \o <<"-">> \o Pad(dt.d, 2)

\* dt.isoformat()
DatetimeIsoformat(dt) ==
    DateIsoformat(dt) \o <<"T">> \o Pad(dt.h, 2) \o <<":">> \o Pad(dt.mi, 2)
        \o <<":">> \o Pad(dt.se, 2)
        \o (IF dt.aware
            THEN LET m == IF dt.off < 0 THEN 0 - dt.off ELSE dt.off
                 IN  <<IF dt.off < 0 THEN "-" ELSE "+">>
                        \o Pad(m \div 60, 2) \o <<":">> \o Pad(m % 60, 2)
            ELSE <<>>)

EpochDate == <<"1","9","7","0","-","0","1","-","0","1">>

EpochIso == EpochDate \o <<"T","0","0",":","0","0",":","0","0","Z">>

UtcOffset == <<"+","0","0",":","0","0">>

Midnight == <<"T","0","0",":","0","0",":","0","0">>

\* The return value once the string s is parsed (dt) or rejected
NormalizedPair(s, dt) ==
    IF dt.ok
    THEN [date_str |-> DateIsoformat(dt),
          iso_str |-> Replace(DatetimeIsoformat(dt), UtcOffset, <<"Z">>)]
    ELSE [date_str |-> Prefix(s, 10), iso_str |-> s]

\* The try block for s = str(published_raw)
NormalizeString(s) ==
    NormalizedPair(s, IF "T" \in Range(s)
                      THEN fromisoformat(Replace(s, <<"Z">>, UtcOffset))
                      ELSE fromisoformat(strip(s) \o Midnight))

\* normalize_published(published_raw) -> (date_str, iso_str)
normalize_published(published_raw) ==
    IF ~Truthy(published_raw)
    THEN [date_str |-> EpochDate, iso_str |-> EpochIso]
    ELSE NormalizeString(PyStr(published_raw))

(***************************************************************************)
(* main: normalisation of one raw record and its fan-out into items        *)
(***************************************************************************)

EmptyStr == <<>>

\* str(paper.get("arxiv_id") or paper.get("id") or "").strip()
resolve_arxiv_id(paper) ==
    strip(PyStr(PyOr(PyOr(Get(paper, "arxiv_id"), Get(paper, "id")),
                     JStr(EmptyStr))))

\* paper.get("title", "").strip() and paper.get("abstract", "").strip() raise
\* AttributeError when the stored value is not a string.
RaisesInRecord(paper) ==
    \/ GetDefault(paper, "title", JStr(EmptyStr)).t # "str"
    \/ GetDefault(paper, "abstract", JStr(EmptyStr)).t # "str"

\* paper.get(key) or [], wrapped into a one-element list unless a list
CoerceList(paper, key) ==
    LET v == PyOr(Get(paper, key), JList(<<>>))
    IN  IF IsList(v) THEN v.v ELSE <<JStr(PyStr(v))>>

\* The local variables of one loop iteration, given the stripped abstract
\* and the result of normalize_published
Locals(paper, abstract, pub) ==
    [arxiv_id |-> resolve_arxiv_id(paper),
     title |-> strip(GetDefault(paper, "title", JStr(EmptyStr)).v),
     abstract |-> abstract,
     authors |-> CoerceList(paper, "authors"),
     categories |-> CoerceList(paper, "categories"),
     date_str |-> pub.date_str,
     published_iso |-> pub.iso_str,
     keywords |-> extract_keywords(abstract, 10)]

\* Lines 177-187 for a record that has an identifier and does not raise
Normalize(paper) ==
    Locals(paper, strip(GetDefault(paper, "abstract", JStr(EmptyStr)).v),
           normalize_published(Get(paper, "published")))

base_attrs(n) ==
    [arxiv_id |-> n.arxiv_id, title |-> n.title, authors |-> n.authors,
     abstract |-> n.abstract, categories |-> n.categories,
     keywords |-> n.keywords, published |-> n.published_iso]

CATEGORY_ == <<"C","A","T","E","G","O","R","Y","#">>

AUTHOR_ == <<"A","U","T","H","O","R","#">>

KEYWORD_ == <<"K","E","Y","W","O","R","D","#">>

PAPER_ == <<"P","A","P","E","R","#">>

PAPER == <<"P","A","P","E","R">>

\* The sort key with its two components exchanged.
DateIdKeyIdFirst(n) == n.arxiv_id \o <<"#">> \o n.date_str

\* f"{date_str}#{arxiv_id}"
DateIdKey(n) == n.date_str \o <<"#">> \o n.arxiv_id

\* item.update(base_attrs): the paper's attributes are copied onto the keys
CategoryItem(n, cat) ==
    base_attrs(n) @@
    [PK |-> CATEGORY_ \o PyStr(cat), SK |-> DateIdKey(n),
     item_type |-> "CATEGORY"]

AuthorItem(n, author_str) ==
    base_attrs(n) @@
    [PK |-> AUTHOR_ \o author_str, SK |-> DateIdKey(n),
     GSI1PK |-> AUTHOR_ \o author_str, GSI1SK |-> DateIdKey(n),
     item_type |-> "AUTHOR"]

KeywordItem(n, kw_str) ==
    base_attrs(n) @@
    [PK |-> KEYWORD_ \o kw_str, SK |-> DateIdKey(n),
     GSI3PK |-> KEYWORD_ \o kw_str, GSI3SK |-> DateIdKey(n),
     item_type |-> "KEYWORD"]

\* An identifier item that keeps the key attributes and the title only
IdItemWithoutCopies(n) ==
    [arxiv_id |-> n.arxiv_id, title |-> n.title, authors |-> <<>>,
     abstract |-> EmptyStr, categories |-> <<>>, keywords |-> <<>>,
     published |-> n.published_iso] @@
    [PK |-> PAPER_ \o n.arxiv_id, SK |-> PAPER,
     GSI2PK |-> PAPER_ \o n.arxiv_id, GSI2SK |-> PAPER,
     item_type |-> "PAPER"]

IdItem(n) ==
    base_attrs(n) @@
    [PK |-> PAPER_ \o n.arxiv_id, SK |-> PAPER,
     GSI2PK |-> PAPER_ \o n.arxiv_id, GSI2SK |-> PAPER,
     item_type |-> "PAPER"]

\* The author entries without the strip
AuthorStrsUnstripped(n) ==
    LET strs == [i \in 1..Len(n.authors) |-> PyStr(n.authors[i])]
    IN  SelectSeq(strs, LAMBDA a : a # EmptyStr)

\* str(author).strip() of every entry, blank results skipped
AuthorStrs(n) ==
    LET strs == [i \in 1..Len(n.authors) |-> strip(PyStr(n.authors[i]))]
    IN  SelectSeq(strs, LAMBDA a : a # EmptyStr)

\* The keyword loop stopping one entry early
KeywordStrsButLast(n) ==
    LET m == Max(Len(n.keywords), 1) - 1
        strs == [i \in 1..m |-> strip(lower(n.keywords[i]))]
    IN  SelectSeq(strs, LAMBDA k : k # EmptyStr)

\* kw.lower().strip() of every keyword, blank results skipped
KeywordStrs(n) ==
    LET strs == [i \in 1..Len(n.keywords) |-> strip(lower(n.keywords[i]))]
    IN  SelectSeq(strs, LAMBDA k : k # EmptyStr)

\* The items of the three for-loops, then the identifier item
ItemsOf(n, au, kw) ==
    [i \in 1..Len(n.categories) |-> CategoryItem(n, n.categories[i])]
    \o [i \in 1..Len(au) |-> AuthorItem(n, au[i])]
    \o [i \in 1..Len(kw) |-> KeywordItem(n, kw[i])]
    \o <<IdItem(n)>>

ItemsOfLocals(n) == ItemsOf(n, AuthorStrs(n), KeywordStrs(n))

\* The items one loop iteration hands to batch.put_item, in order
PaperItems(paper) == ItemsOfLocals(Normalize(paper))

(***************************************************************************)
(* The table and the batch writer                                          *)
(***************************************************************************)

\* The primary key of the table: KeySchema PK (HASH), SK (RANGE)
TableKey(item) == <<item.PK, item.SK>>

\* A put that adds the item beside whatever is stored under its key.
TablePutKeepingOld(t, item) == t (+) SetToBag({item})

\* PutItem: the stored items are a bag; a put replaces every stored item
\* that has the key of the new one.
TablePut(t, item) ==
    LET others == {x \in BagToSet(t) : TableKey(x) # TableKey(item)}
    IN  [x \in others |-> t[x]] (+) SetToBag({item})

\* batch.put_item under overwrite_by_pkeys=("PK", "SK"): a pending request
\* with the same key is dropped, the new one is appended.
BufferPut(buffer, item) ==
    SelectSeq(buffer, LAMBDA x : TableKey(x) # TableKey(item)) \o <<item>>

ZeroStats ==
    [num_papers |-> 0, total_items |-> 0, category_items |-> 0,
     author_items |-> 0, keyword_items |-> 0, id_items |-> 0]

\* the counters bumped after one put_item
CountItem(st, item) ==
    [st EXCEPT
        !.total_items = @ + 1,
        !.category_items = IF item.item_type = "CATEGORY" THEN @ + 1 ELSE @,
        !.author_items = IF item.item_type = "AUTHOR" THEN @ + 1 ELSE @,
        !.keyword_items = IF item.item_type = "KEYWORD" THEN @ + 1 ELSE @,
        !.id_items = IF item.item_type = "PAPER" THEN @ + 1 ELSE @]

(***************************************************************************)
(* Input feeds                                                             *)
(***************************************************************************)

\* Bounds of the model
MaxBatch == 2

MaxRuns == 3

\* The batch writer sends its buffer when it holds this many requests
\* (boto3 sends at 25; the model sends earlier so that short feeds exercise
\* a send in the middle of the loop as well as the one on exit).
FlushAmount == 3

MaxAbstractLen == 6

MaxKeywords == 3

\* The identifiers asked for: those of the feeds and one that is in no feed
S_Z9 == <<"Z","9">>

S_A1 == <<"A","1">>

S_B1 == <<"B","1">>

S_B2 == <<"B","2">>

S_C3 == <<"C","3">>

S_D1 == <<"D","1">>

S_D2 == <<"D","2">>

S_D3 == <<"D","3">>

S_E5 == <<"E","5">>

S_Tilde1 == <<"~","1">>

cs_AI == <<"c","s",".","A","I">>

cs_LG == <<"c","s",".","L","G">>

X_Y == <<"X"," ","Y">>

S_deep == <<"d","e","e","p"," ","l","e","a","r","n","i","n","g"," ","d","e","e","p"," ","l","e","a","r","n","i","n","g"," ","n","e","t","w","o","r","k","s">>

D_2024_01_02 == <<"2","0","2","4","-","0","1","-","0","2">>

D_2024_01_03 == <<"2","0","2","4","-","0","1","-","0","3">>

\* The paper of the end-to-end scenario
ScenarioPaper ==
    [id |-> JStr(S_A1),
     categories |-> JList(<<JStr(cs_AI), JStr(cs_LG)>>),
     authors |-> JList(<<JStr(X_Y)>>),
     abstract |-> JStr(S_deep)]

\* One paper and two corrected versions of it
PaperV1 ==
    [arxiv_id |-> JStr(S_B2), title |-> JStr(<<"t">>),
     abstract |-> JStr(<<"n","e","t","s">>),
     authors |-> JList(<<JStr(X_Y)>>),
     categories |-> JList(<<JStr(cs_AI)>>),
     published |-> JStr(D_2024_01_02)]

PaperV2 == [PaperV1 EXCEPT !.title = JStr(<<"u">>)]

PaperV3 == [PaperV1 EXCEPT !.categories = JList(<<JStr(cs_LG)>>)]

\* Repeated and blank list entries, a record without identifier, a record
\* whose title is null
PaperDup ==
    [id |-> JStr(S_C3),
     categories |-> JList(<<JStr(cs_AI), JStr(cs_AI)>>),
     authors |-> JList(<<JStr(X_Y), JStr(<<" ">> \o X_Y), JStr(<<" ">>)>>),
     abstract |-> JStr(<<"N","e","t","s"," ","n","e","t","s">>)]

RecordNoId ==
    [arxiv_id |-> JStr(<<" ">>), id |-> JNull, title |-> JNull,
     categories |-> JList(<<JStr(cs_AI)>>)]

RecordNullTitle ==
    [id |-> JStr(S_E5), title |-> JNull,
     categories |-> JList(<<JStr(cs_AI)>>)]

\* Published values that fromisoformat rejects (month/day/year), a scalar
\* category, and a full timestamp
PaperUS1 ==
    [id |-> JStr(S_D1), categories |-> JStr(cs_AI),
     published |-> JStr(<<"0","3","/","0","1","/","2","0","2","3">>)]

PaperUS2 ==
    [id |-> JStr(S_D2), categories |-> JList(<<JStr(cs_AI)>>),
     published |-> JStr(<<"0","1","/","0","2","/","2","0","2","4">>)]

PaperTs ==
    [id |-> JStr(S_D3), categories |-> JList(<<JStr(cs_AI)>>),
     published |-> JStr(<<"2","0","2","3","-","0","3","-","0","1","T","1","0",":","0","0",":","0","0","Z">>)]

\* Papers of one category: an identifier that sorts after "zzzzzzz", a
\* timestamp on the same day, and no published value
PaperTilde ==
    [id |-> JStr(S_Tilde1), categories |-> JList(<<JStr(cs_AI)>>),
     published |-> JStr(D_2024_01_02)]

PaperSameDay ==
    [arxiv_id |-> JStr(S_B2), categories |-> JList(<<JStr(cs_AI)>>),
     published |-> JStr(<<"2","0","2","4","-","0","1","-","0","2","T","1","0",":","0","0",":","0","0","Z">>)]

PaperNoDate ==
    [id |-> JStr(S_B1), categories |-> JList(<<JStr(cs_AI)>>)]

\* A whitespace-only and an empty arxiv_id beside a usable id
RecordBlankArxivId ==
    [arxiv_id |-> JStr(<<" ">>), id |-> JStr(S_B1),
     categories |-> JList(<<JStr(cs_AI)>>)]

RecordEmptyArxivId ==
    [arxiv_id |-> JStr(EmptyStr), id |-> JStr(<<" ">> \o S_C3 \o <<" ">>),
     categories |-> JList(<<JStr(cs_AI)>>)]

\* Two papers whose unparseable published values and identifiers give the
\* same sort key x##1 in the same category
PaperHashId ==
    [id |-> JStr(<<"#","1">>), categories |-> JList(<<JStr(cs_AI)>>),
     published |-> JStr(<<"x">>)]

PaperHashDate ==
    [id |-> JStr(<<"1">>), categories |-> JList(<<JStr(cs_AI)>>),
     published |-> JStr(<<"x","#">>)]

\* The feeds are drawn from one of these sets of raw records.
Pools ==
    { {ScenarioPaper},
      {PaperV1, PaperV2, PaperV3},
      {PaperDup, RecordNoId, RecordNullTitle},
      {PaperUS1, PaperUS2, PaperTs},
      {PaperTilde, PaperSameDay, PaperNoDate},
      {RecordBlankArxivId, RecordEmptyArxivId},
      {PaperHashId, PaperHashDate} }

\* load_papers_from_json: a list of at most MaxBatch records of the pool
Batches(records) == UNION {[1..n -> records] : n \in 0..MaxBatch}

(***************************************************************************)
(* State                                                                   *)
(***************************************************************************)

Procs == {1, 2}

VARIABLES
    table,       \* the stored items of the DynamoDB table (a bag)
    refTable,    \* the table as the writes of process 1 alone leave it
    pool,        \* the set of raw records the feeds are drawn from
    pc,          \* per process: idle, loop, put, flush, exitflush, done, failed
    papers,      \* per process: the loaded list of raw records
    idx,         \* per process: position of the for-loop in papers
    itemNo,      \* per process: next item of the current paper, 0 between papers
    buffer,      \* per process: the batch writer's pending requests
    sending,     \* per process: the requests of the batch being written
    stats,       \* per process: num_papers, total_items and the per-kind counters
    raised,      \* per process: an exception left the loop
    runs,        \* per process: number of runs started
    failedAt,    \* per process: <<>>, or <<the table when a write of this run failed>>
    tableStatus,    \* the DynamoDB table: absent, CREATING or ACTIVE
    gsiStatus,      \* the IndexStatus of each global secondary index
    gsi_statuses,   \* per process: what the last poll of ensure_table_exists saw
    http_request,   \* the request the HTTP handler served last
    http_fault,     \* what the store did to the query of that request
    http_response,  \* the response the handler sent
    startTable,  \* the table when the current run of process 1 started
    prevPapers,  \* the feed of the previous run of process 1
    kw_abstract, \* extract_keywords: the abstract
    kw_max,      \* extract_keywords: max_keywords
    kw_result,   \* extract_keywords: the returned list
    kw_done      \* extract_keywords has returned

vars ==
    <<table, refTable, pool, pc, papers, idx, itemNo, buffer, sending, stats,
      raised, runs, failedAt, startTable, prevPapers, kw_abstract, kw_max, kw_result,
      kw_done, http_request, http_fault, http_response, tableStatus,
      gsiStatus, gsi_statuses>>

ddlVars == <<tableStatus, gsiStatus, gsi_statuses>>

apiVars == <<http_request, http_fault, http_response>>

kwVars == <<kw_abstract, kw_max, kw_result, kw_done>>

loaderVars ==
    <<table, refTable, pool, pc, papers, idx, itemNo, buffer, sending, stats,
      raised, runs, failedAt, startTable, prevPapers>>

(***************************************************************************)
(* The loader: main, one step per loop iteration, put_item and write       *)
(***************************************************************************)

\* The GlobalSecondaryIndexes of create_table
IndexNames == {"AuthorIndex", "PaperIdIndex", "KeywordIndex"}

\* No index, or no poll made
NoStatuses == [i \in IndexNames |-> "NONE"]

AllActive(statuses) == \A i \in IndexNames : statuses[i] = "ACTIVE"

SomeActive(statuses) == \E i \in IndexNames : statuses[i] = "ACTIVE"

\* The table does not exist.
TableAbsent ==
    /\ tableStatus = "absent"
    /\ gsiStatus = NoStatuses

\* The table exists with its three indexes, all ACTIVE.
TableReady ==
    /\ tableStatus = "ACTIVE"
    /\ gsiStatus = [i \in IndexNames |-> "ACTIVE"]

IdleProcesses ==
    /\ refTable = EmptyBag
    /\ gsi_statuses = [p \in Procs |-> NoStatuses]
    /\ pc = [p \in Procs |-> "idle"]
    /\ papers = [p \in Procs |-> <<>>]
    /\ idx = [p \in Procs |-> 1]
    /\ itemNo = [p \in Procs |-> 0]
    /\ buffer = [p \in Procs |-> <<>>]
    /\ sending = [p \in Procs |-> {}]
    /\ stats = [p \in Procs |-> ZeroStats]
    /\ raised = [p \in Procs |-> FALSE]
    /\ runs = [p \in Procs |-> 0]
    /\ failedAt = [p \in Procs |-> <<>>]
    /\ startTable = EmptyBag
    /\ prevPapers = <<>>

IdleLoader ==
    /\ table = EmptyBag
    /\ IdleProcesses

IdleKeywords ==
    /\ kw_abstract = <<>>
    /\ kw_max = 0
    /\ kw_result = <<>>
    /\ kw_done = FALSE

\* No request was served yet.
NoRequest == [path |-> <<>>, qs |-> <<>>]

NoFault == "none"

NoResponse == [status |-> 0]

IdleApi ==
    /\ http_request = NoRequest
    /\ http_fault = NoFault
    /\ http_response = NoResponse

Init ==
    /\ pool \in Pools
    /\ IdleLoader
    /\ IdleKeywords
    /\ IdleApi
    /\ TableAbsent \/ TableReady

\* main calls ensure_table_exists.
CallEnsure(p) ==
    /\ pc[p] \in {"idle", "done", "failed"}
    /\ runs[p] < MaxRuns
    /\ pc' = [pc EXCEPT ![p] = "load"]
    /\ gsi_statuses' = [gsi_statuses EXCEPT ![p] = NoStatuses]
    /\ UNCHANGED <<table, refTable, pool, papers, idx, itemNo, buffer, sending,
                   stats, raised, runs, failedAt, startTable, prevPapers,
                   kwVars, apiVars, tableStatus, gsiStatus>>

\* table.load() succeeds: the existing table is returned.
LoadExisting(p) ==
    /\ pc[p] = "load"
    /\ tableStatus # "absent"
    /\ pc' = [pc EXCEPT ![p] = "ready"]
    /\ UNCHANGED <<table, refTable, pool, papers, idx, itemNo, buffer, sending,
                   stats, raised, runs, failedAt, startTable, prevPapers,
                   kwVars, apiVars, ddlVars>>

\* table.load() raises ResourceNotFoundException.
LoadAbsent(p) ==
    /\ pc[p] = "load"
    /\ tableStatus = "absent"
    /\ pc' = [pc EXCEPT ![p] = "create"]
    /\ UNCHANGED <<table, refTable, pool, papers, idx, itemNo, buffer, sending,
                   stats, raised, runs, failedAt, startTable, prevPapers,
                   kwVars, apiVars, ddlVars>>

\* dynamodb.create_table(...) with the three global secondary indexes
CreateTable(p) ==
    /\ pc[p] = "create"
    /\ tableStatus' = "CREATING"
    /\ gsiStatus' = [i \in IndexNames |-> "CREATING"]
    /\ pc' = [pc EXCEPT ![p] = "wait"]
    /\ UNCHANGED <<table, refTable, pool, papers, idx, itemNo, buffer, sending,
                   stats, raised, runs, failedAt, startTable, prevPapers,
                   kwVars, apiVars, gsi_statuses>>

\* table.wait_until_exists() returns once the table is ACTIVE.
WaitUntilExists(p) ==
    /\ pc[p] = "wait"
    /\ tableStatus = "ACTIVE"
    /\ pc' = [pc EXCEPT ![p] = "poll"]
    /\ UNCHANGED <<table, refTable, pool, papers, idx, itemNo, buffer, sending,
                   stats, raised, runs, failedAt, startTable, prevPapers,
                   kwVars, apiVars, ddlVars>>

\* all(s == "ACTIVE" for s in gsi_statuses), with any(...) in its place
ReadyAny(statuses) == SomeActive(statuses)

\* all(s == "ACTIVE" for s in gsi_statuses)
Ready(statuses) == AllActive(statuses)

\* One round of the while-loop: describe_table, then break or sleep
Poll(p) ==
    /\ pc[p] = "poll"
    /\ gsi_statuses' = [gsi_statuses EXCEPT ![p] = gsiStatus]
    /\ pc' = [pc EXCEPT ![p] = IF Ready(gsiStatus) THEN "ready" ELSE "sleep"]
    /\ UNCHANGED <<table, refTable, pool, papers, idx, itemNo, buffer, sending,
                   stats, raised, runs, failedAt, startTable, prevPapers,
                   kwVars, apiVars, tableStatus, gsiStatus>>

\* time.sleep(5) is over.
Sleep(p) ==
    /\ pc[p] = "sleep"
    /\ pc' = [pc EXCEPT ![p] = "poll"]
    /\ UNCHANGED <<table, refTable, pool, papers, idx, itemNo, buffer, sending,
                   stats, raised, runs, failedAt, startTable, prevPapers,
                   kwVars, apiVars, ddlVars>>

ensure_table_exists(p) ==
    \/ LoadExisting(p)
    \/ LoadAbsent(p)
    \/ CreateTable(p)
    \/ WaitUntilExists(p)
    \/ Poll(p)
    \/ Sleep(p)

\* The store finishes creating the table.
TableBecomesActive ==
    /\ tableStatus = "CREATING"
    /\ tableStatus' = "ACTIVE"
    /\ UNCHANGED <<loaderVars, kwVars, apiVars, gsiStatus, gsi_statuses>>

\* The store finishes building an index.
IndexBecomesActive(i) ==
    /\ gsiStatus[i] = "CREATING"
    /\ gsiStatus' = [gsiStatus EXCEPT ![i] = "ACTIVE"]
    /\ UNCHANGED <<loaderVars, kwVars, apiVars, tableStatus, gsi_statuses>>

\* The record the for-loop of process p is at
Current(p) == papers[p][idx[p]]

\* main from the return of ensure_table_exists to the with-statement: the
\* feed is loaded, the counters are zero and the batch writer is empty.
Start(p, feed) ==
    /\ pc[p] = "ready"
    /\ runs[p] < MaxRuns
    /\ pc' = [pc EXCEPT ![p] = "loop"]
    /\ papers' = [papers EXCEPT ![p] = feed]
    /\ idx' = [idx EXCEPT ![p] = 1]
    /\ itemNo' = [itemNo EXCEPT ![p] = 0]
    /\ buffer' = [buffer EXCEPT ![p] = <<>>]
    /\ sending' = [sending EXCEPT ![p] = {}]
    /\ stats' = [stats EXCEPT ![p] = ZeroStats]
    /\ raised' = [raised EXCEPT ![p] = FALSE]
    /\ runs' = [runs EXCEPT ![p] = @ + 1]
    /\ failedAt' = [failedAt EXCEPT ![p] = <<>>]
    /\ startTable' = table
    /\ prevPapers' = papers[p]
    /\ UNCHANGED <<table, refTable, pool, kwVars, apiVars, ddlVars>>

\* if not arxiv_id: continue
SkipRecord(p) ==
    /\ pc[p] = "loop"
    /\ idx[p] <= Len(papers[p])
    /\ resolve_arxiv_id(Current(p)) = EmptyStr
    /\ idx' = [idx EXCEPT ![p] = @ + 1]
    /\ UNCHANGED <<table, refTable, pool, pc, papers, itemNo, buffer, sending,
                   stats, raised, runs, startTable, prevPapers, kwVars,
                   failedAt, apiVars, ddlVars>>

\* The record is normalised (title .. base_attrs) and counted.
BeginRecord(p) ==
    /\ pc[p] = "loop"
    /\ idx[p] <= Len(papers[p])
    /\ resolve_arxiv_id(Current(p)) # EmptyStr
    /\ ~RaisesInRecord(Current(p))
    /\ stats' = [stats EXCEPT ![p].num_papers = @ + 1]
    /\ itemNo' = [itemNo EXCEPT ![p] = 1]
    /\ pc' = [pc EXCEPT ![p] = "put"]
    /\ UNCHANGED <<table, refTable, pool, papers, idx, buffer, sending,
                   raised, runs, startTable, prevPapers, kwVars,
                   failedAt, apiVars, ddlVars>>

\* Leaving the with-statement (BatchWriter.__exit__): what is still pending
\* is sent, then main goes on to its report or the exception propagates.
LeaveWriter(p, exc) ==
    /\ raised' = [raised EXCEPT ![p] = exc]
    /\ IF buffer[p] = <<>>
       THEN /\ pc' = [pc EXCEPT ![p] = IF exc THEN "failed" ELSE "done"]
            /\ UNCHANGED <<buffer, sending>>
       ELSE /\ pc' = [pc EXCEPT ![p] = "exitflush"]
            /\ sending' = [sending EXCEPT ![p] =
                              Range(SubSeq(buffer[p], 1,
                                           Min(FlushAmount, Len(buffer[p]))))]
            /\ buffer' = [buffer EXCEPT ![p] =
                              SubSeq(@, Min(FlushAmount, Len(@)) + 1, Len(@))]

\* The normalisation of the record raises inside the with-statement.
RaiseInRecord(p) ==
    /\ pc[p] = "loop"
    /\ idx[p] <= Len(papers[p])
    /\ resolve_arxiv_id(Current(p)) # EmptyStr
    /\ RaisesInRecord(Current(p))
    /\ LeaveWriter(p, TRUE)
    /\ UNCHANGED <<table, refTable, pool, papers, idx, itemNo, stats, runs,
                   startTable, prevPapers, kwVars,
                   failedAt, apiVars, ddlVars>>

\* The for-loop is exhausted.
EndLoop(p) ==
    /\ pc[p] = "loop"
    /\ idx[p] > Len(papers[p])
    /\ LeaveWriter(p, FALSE)
    /\ UNCHANGED <<table, refTable, pool, papers, idx, itemNo, stats, runs,
                   startTable, prevPapers, kwVars,
                   failedAt, apiVars, ddlVars>>

\* The writer after put_item left `pending` in its buffer: it keeps the
\* requests, or sends the first FlushAmount of them.
AfterPut(p, pending, last) ==
    IF Len(pending) >= FlushAmount
    THEN /\ buffer' = [buffer EXCEPT ![p] =
                          SubSeq(pending, FlushAmount + 1, Len(pending))]
         /\ sending' = [sending EXCEPT ![p] =
                           Range(SubSeq(pending, 1, FlushAmount))]
         /\ pc' = [pc EXCEPT ![p] = "flush"]
    ELSE /\ buffer' = [buffer EXCEPT ![p] = pending]
         /\ pc' = [pc EXCEPT ![p] = IF last THEN "loop" ELSE "put"]
         /\ UNCHANGED sending

PutThis(p, item, last) ==
    /\ stats' = [stats EXCEPT ![p] = CountItem(@, item)]
    /\ itemNo' = [itemNo EXCEPT ![p] = IF last THEN 0 ELSE @ + 1]
    /\ idx' = [idx EXCEPT ![p] = IF last THEN @ + 1 ELSE @]
    /\ AfterPut(p, BufferPut(buffer[p], item), last)

PutNth(p, items) ==
    PutThis(p, items[itemNo[p]], itemNo[p] = Len(items))

\* One batch.put_item(Item=item) and the counters after it.
PutItem(p) ==
    /\ pc[p] = "put"
    /\ PutNth(p, PaperItems(Current(p)))
    /\ UNCHANGED <<table, refTable, pool, papers, raised, runs, startTable,
                   prevPapers, kwVars,
                   failedAt, apiVars, ddlVars>>

\* One request of the batch being sent is applied to the table (the store
\* applies the puts of a batch one by one, in no particular order).  After
\* the last one the writer returns to the loop, or finishes leaving.
WriteItem(p) ==
    /\ pc[p] \in {"flush", "exitflush"}
    /\ \E item \in sending[p] :
          /\ table' = TablePut(table, item)
          /\ refTable' = IF p = 1 THEN TablePut(refTable, item) ELSE refTable
          /\ LET rest == sending[p] \ {item}
             IN  IF rest # {}
                 THEN /\ sending' = [sending EXCEPT ![p] = rest]
                      /\ UNCHANGED <<pc, buffer>>
                 ELSE IF pc[p] = "flush"
                 THEN /\ sending' = [sending EXCEPT ![p] = {}]
                      /\ pc' = [pc EXCEPT ![p] =
                                   IF itemNo[p] = 0 THEN "loop" ELSE "put"]
                      /\ UNCHANGED buffer
                 ELSE IF buffer[p] = <<>>
                 THEN /\ sending' = [sending EXCEPT ![p] = {}]
                      /\ pc' = [pc EXCEPT ![p] =
                                   IF raised[p] THEN "failed" ELSE "done"]
                      /\ UNCHANGED buffer
                 ELSE /\ sending' = [sending EXCEPT ![p] =
                                        Range(SubSeq(buffer[p], 1,
                                              Min(FlushAmount, Len(buffer[p]))))]
                      /\ buffer' = [buffer EXCEPT ![p] =
                                       SubSeq(@, Min(FlushAmount, Len(@)) + 1,
                                              Len(@))]
                      /\ UNCHANGED pc
    /\ UNCHANGED <<pool, papers, idx, itemNo, stats, raised, runs, startTable,
                   prevPapers, kwVars,
                   failedAt, apiVars, ddlVars>>

\* The batch_write_item call of the batch being sent raises, with any part
\* of the batch already applied by the store.  From put_item the exception
\* leaves the with-statement, whose __exit__ still sends what is pending;
\* from __exit__ it leaves main.  Nothing that was written is taken back.
WriteFailsRollingBack(p) ==
    /\ pc[p] \in {"flush", "exitflush"}
    /\ failedAt' = [failedAt EXCEPT ![p] = <<table>>]
    /\ raised' = [raised EXCEPT ![p] = TRUE]
    /\ table' = startTable
    /\ pc' = [pc EXCEPT ![p] = "failed"]
    /\ sending' = [sending EXCEPT ![p] = {}]
    /\ UNCHANGED <<refTable, pool, papers, idx, itemNo, buffer, stats, runs,
                   startTable, prevPapers, kwVars, apiVars, ddlVars>>

WriteFails(p) ==
    /\ pc[p] \in {"flush", "exitflush"}
    /\ failedAt' = [failedAt EXCEPT ![p] = <<table>>]
    /\ raised' = [raised EXCEPT ![p] = TRUE]
    /\ IF pc[p] = "flush" /\ buffer[p] # <<>>
       THEN /\ pc' = [pc EXCEPT ![p] = "exitflush"]
            /\ sending' = [sending EXCEPT ![p] =
                              Range(SubSeq(buffer[p], 1,
                                           Min(FlushAmount, Len(buffer[p]))))]
            /\ buffer' = [buffer EXCEPT ![p] =
                              SubSeq(@, Min(FlushAmount, Len(@)) + 1, Len(@))]
       ELSE /\ pc' = [pc EXCEPT ![p] = "failed"]
            /\ sending' = [sending EXCEPT ![p] = {}]
            /\ UNCHANGED buffer
    /\ UNCHANGED <<table, refTable, pool, papers, idx, itemNo, stats, runs,
                   startTable, prevPapers, kwVars, apiVars, ddlVars>>

Step(p) ==
    \/ SkipRecord(p)
    \/ BeginRecord(p)
    \/ RaiseInRecord(p)
    \/ EndLoop(p)
    \/ PutItem(p)
    \/ WriteItem(p)

\* What the print statements after the loop show of the counters: the number
\* of papers, the number of items, and the number of items of each kind (the
\* factor and the averages are quotients of these).
Report(s) ==
    [loaded |-> s.num_papers, created |-> s.total_items,
     category_items |-> s.category_items, author_items |-> s.author_items,
     keyword_items |-> s.keyword_items, id_items |-> s.id_items]

\* One loader, run again and again over feeds of the pool
Next ==
    \/ CallEnsure(1)
    \/ ensure_table_exists(1)
    \/ TableBecomesActive
    \/ \E i \in IndexNames : IndexBecomesActive(i)
    \/ \E feed \in Batches(pool) : Start(1, feed)
    \/ Step(1)

Spec == Init /\ [][Next]_vars

\* The same loader against a store whose writes can fail, followed up to
\* the end of the first run in which a write failed
NextFailing ==
    \/ failedAt[1] = <<>> /\ Next
    \/ WriteFails(1)

SpecFailing == Init /\ [][NextFailing]_vars

\* Two loaders started together on the same one-paper feed
InitConcurrent ==
    /\ pool \in Pools
    /\ IdleKeywords
    /\ IdleApi
    /\ TableReady
    /\ gsi_statuses = [p \in Procs |-> NoStatuses]
    /\ table = EmptyBag
    /\ refTable = EmptyBag
    /\ \E r \in pool : papers = [p \in Procs |-> <<r>>]
    /\ pc = [p \in Procs |-> "loop"]
    /\ idx = [p \in Procs |-> 1]
    /\ itemNo = [p \in Procs |-> 0]
    /\ buffer = [p \in Procs |-> <<>>]
    /\ sending = [p \in Procs |-> {}]
    /\ stats = [p \in Procs |-> ZeroStats]
    /\ raised = [p \in Procs |-> FALSE]
    /\ runs = [p \in Procs |-> 1]
    /\ failedAt = [p \in Procs |-> <<>>]
    /\ startTable = EmptyBag
    /\ prevPapers = <<>>

NextConcurrent == \E p \in Procs : Step(p)

SpecConcurrent == InitConcurrent /\ [][NextConcurrent]_vars

\* extract_keywords called on its own, for every short abstract over a small
\* alphabet (a stop word "a", a letter in both cases, a separator) and every
\* max_keywords up to MaxKeywords
KwAlphabet == {"a", "n", "N", " "}

Abstracts == UNION {[1..n -> KwAlphabet] : n \in 0..MaxAbstractLen}

InitKeywords ==
    /\ pool = {}
    /\ IdleLoader
    /\ IdleApi
    /\ TableReady
    /\ kw_abstract \in Abstracts
    /\ kw_max \in 0..MaxKeywords
    /\ kw_result = <<>>
    /\ kw_done = FALSE

CallExtractKeywords ==
    /\ ~kw_done
    /\ kw_result' = extract_keywords(kw_abstract, kw_max)
    /\ kw_done' = TRUE
    /\ UNCHANGED <<kw_abstract, kw_max, loaderVars, apiVars, ddlVars>>

SpecKeywords == InitKeywords /\ [][CallExtractKeywords]_vars

(***************************************************************************)
(* The queries (query_papers.py, repeated in api_server.py)                *)
(***************************************************************************)

None == JNull

\* The stored items that carry both key attributes of an index (the table
\* itself for PK / SK) and have partition key pk
Partition(t, pkAttr, skAttr, pk) ==
    LET hit == {x \in BagToSet(t) :
                   /\ pkAttr \in DOMAIN x
                   /\ skAttr \in DOMAIN x
                   /\ x[pkAttr] = pk}
    IN  [x \in hit |-> t[x]]

\* The items of a bag in ascending order of their sort key
RECURSIVE InKeyOrder(_, _)
InKeyOrder(b, skAttr) ==
    IF BagToSet(b) = {} THEN <<>>
    ELSE LET x == CHOOSE x \in BagToSet(b) :
                     \A y \in BagToSet(b) : StrLeq(x[skAttr], y[skAttr])
         IN  <<x>> \o InKeyOrder(b (-) SetToBag({x}), skAttr)

Reverse(s) == [i \in 1..Len(s) |-> s[Len(s) + 1 - i]]

\* Table.query(KeyConditionExpression=Key(pkAttr).eq(pk), ScanIndexForward,
\* Limit)["Items"]; limit = -1 stands for no Limit
Query(t, pkAttr, skAttr, pk, forward, limit) ==
    LET asc == InKeyOrder(Partition(t, pkAttr, skAttr, pk), skAttr)
        ordered == IF forward THEN asc ELSE Reverse(asc)
    IN  IF limit < 0 THEN ordered ELSE SubSeq(ordered, 1, Min(limit, Len(asc)))

\* ... & Key(skAttr).between(lo, hi)
Between(items, skAttr, lo, hi) ==
    SelectSeq(items, LAMBDA x : StrLeq(lo, x[skAttr]) /\ StrLeq(x[skAttr], hi))

query_recent_in_category(t, category, limit) ==
    Query(t, "PK", "SK", CATEGORY_ \o category, FALSE, limit)

query_papers_by_author(t, author_name) ==
    Query(t, "GSI1PK", "GSI1SK", AUTHOR_ \o author_name, TRUE, -1)

\* response['Items'][0] if response['Items'] else None
FirstOrNone(items) == IF items # <<>> THEN items[1] ELSE None

get_paper_by_id(t, arxiv_id) ==
    FirstOrNone(Query(t, "GSI2PK", "GSI2SK", PAPER_ \o arxiv_id, TRUE, -1))

UpperSuffix == <<"#","z","z","z","z","z","z","z">>

query_papers_in_date_range(t, category, start_date, end_date) ==
    Between(Query(t, "PK", "SK", CATEGORY_ \o category, TRUE, -1), "SK",
            start_date \o <<"#">>, end_date \o UpperSuffix)

\* The keyword query without keyword.lower()
query_papers_by_keywordCaseSensitive(t, keyword, limit) ==
    Query(t, "GSI3PK", "GSI3SK", KEYWORD_ \o keyword, FALSE, limit)

query_papers_by_keyword(t, keyword, limit) ==
    Query(t, "GSI3PK", "GSI3SK", KEYWORD_ \o lower(keyword), FALSE, limit)

\* do_GET for /papers/<arxiv_id>: 200 with the item, or 404
PaperResponse(arxiv_id, item) ==
    IF item # None
    THEN [status |-> 200, body |-> item]
    ELSE [status |-> 404,
          body |-> [error |-> "Paper not found", arxiv_id |-> arxiv_id]]

do_GET_paper(t, arxiv_id) == PaperResponse(arxiv_id, get_paper_by_id(t, arxiv_id))

(***************************************************************************)
(* The HTTP handler (api_server.py)                                        *)
(***************************************************************************)

P_recent == <<"/","p","a","p","e","r","s","/","r","e","c","e","n","t">>

P_author_ == <<"/","p","a","p","e","r","s","/","a","u","t","h","o","r","/">>

P_papers_ == <<"/","p","a","p","e","r","s","/">>

P_keyword_ == <<"/","p","a","p","e","r","s","/","k","e","y","w","o","r","d","/">>

P_search == <<"/","p","a","p","e","r","s","/","s","e","a","r","c","h">>

HexDigits == <<"0","1","2","3","4","5","6","7","8","9","A","B","C","D","E","F">>

IsHex(c) == \E i \in 1..16 : HexDigits[i] = c \/ LowerChar(HexDigits[i]) = c

HexVal(c) == (CHOOSE i \in 1..16 : HexDigits[i] = c \/ LowerChar(HexDigits[i]) = c) - 1

\* urllib.parse.unquote for escapes of printable ASCII: %XX becomes the
\* character with that code, anything else is kept.
RECURSIVE unquote(_)
unquote(s) ==
    IF s = <<>> THEN <<>>
    ELSE IF /\ s[1] = "%"
            /\ Len(s) >= 3
            /\ IsHex(s[2])
            /\ IsHex(s[3])
            /\ 16 * HexVal(s[2]) + HexVal(s[3]) \in 32..126
    THEN <<Ascii[16 * HexVal(s[2]) + HexVal(s[3]) - 31]>>
         \o unquote(SubSeq(s, 4, Len(s)))
    ELSE <<s[1]>> \o unquote(Tail(s))

\* path[len(prefix):]
AfterPrefix(path, prefix) == SubSeq(path, Len(prefix) + 1, Len(path))

\* qs.get(k, [None])[0] is None or empty (parse_qs drops blank values)
Missing(qs, k) == k \notin DOMAIN qs \/ qs[k] = <<>>

\* qs.get("limit", ["20"])[0]
LimitParam(qs) == IF "limit" \in DOMAIN qs THEN qs["limit"] ELSE <<"2","0">>

\* The digits of a literal that int() accepts after its optional sign
Unsigned(s) ==
    IF s # <<>> /\ s[1] \in {"+", "-"} THEN Tail(s) ELSE s

\* int(s) succeeds: surrounding whitespace, an optional sign, digits
IsIntLiteral(s) ==
    /\ Unsigned(strip(s)) # <<>>
    /\ \A i \in 1..Len(Unsigned(strip(s))) : IsDigit(Unsigned(strip(s))[i])

\* int(s) for such a literal
int(s) ==
    IF strip(s)[1] = "-" THEN 0 - Num(Unsigned(strip(s)))
    ELSE Num(Unsigned(strip(s)))

\* What the try block of do_GET ends with: a response sent, or an exception
Sent(status, body) == [raises |-> FALSE, status |-> status, body |-> body]

Raises(message) == [raises |-> TRUE, message |-> message]

\* str(e) of the ValueError of int(s)
InvalidLiteral(s) == <<"invalid literal for int() with base 10", s>>

\* str(e) of the error botocore raises for a Limit below 1
InvalidLimit(n) == <<"Parameter validation failed: Invalid value for parameter Limit", n>>

\* The exceptions a query can raise because of the store
QueryExceptions ==
    { "An error occurred (ResourceNotFoundException) when calling the Query operation: Requested resource not found",
      "An error occurred (ProvisionedThroughputExceededException) when calling the Query operation" }

Faults == {NoFault} \cup QueryExceptions

\* A query of the handler: it raises what the store raises, and a Limit
\* below 1 is rejected before the request is sent; limit = -1 stands for a
\* query without Limit.
Queried(fault, limited, limit, items) ==
    IF limited /\ limit < 1 THEN Raises(InvalidLimit(limit))
    ELSE IF fault # NoFault THEN Raises(fault)
    ELSE [raises |-> FALSE, items |-> items]

\* self._send_json(200, payload) once the query returned
SendItems(q, payload) ==
    IF q.raises THEN q
    ELSE Sent(200, payload @@ [count |-> Len(q.items), papers |-> q.items])

\* if path == "/papers/recent":
Recent(t, qs, fault) ==
    IF ~IsIntLiteral(LimitParam(qs)) THEN Raises(InvalidLiteral(LimitParam(qs)))
    ELSE IF Missing(qs, "category")
    THEN Sent(400, [error |-> "Missing category parameter"])
    ELSE SendItems(Queried(fault, TRUE, int(LimitParam(qs)),
                           query_recent_in_category(t, qs["category"],
                                                    Max(int(LimitParam(qs)), 0))),
                   [category |-> qs["category"]])

\* if path.startswith("/papers/author/"):
ByAuthor(t, author, fault) ==
    SendItems(Queried(fault, FALSE, -1, query_papers_by_author(t, author)),
              [author |-> author])

\* the branch of /papers/<arxiv_id>
ById(t, arxiv_id, fault) ==
    IF fault # NoFault THEN Raises(fault)
    ELSE LET r == do_GET_paper(t, arxiv_id)
         IN  Sent(r.status, r.body)

\* if path == "/papers/search":
Search(t, qs, fault) ==
    IF Missing(qs, "category") \/ Missing(qs, "start") \/ Missing(qs, "end")
    THEN Sent(400, [error |-> "Missing category/start/end parameters"])
    ELSE SendItems(Queried(fault, FALSE, -1,
                           query_papers_in_date_range(t, qs["category"],
                                                      qs["start"], qs["end"])),
                   [category |-> qs["category"], start |-> qs["start"],
                    end |-> qs["end"]])

\* if path.startswith("/papers/keyword/"):
ByKeyword(t, keyword, qs, fault) ==
    IF ~IsIntLiteral(LimitParam(qs)) THEN Raises(InvalidLiteral(LimitParam(qs)))
    ELSE SendItems(Queried(fault, TRUE, int(LimitParam(qs)),
                           query_papers_by_keyword(t, keyword,
                                                   Max(int(LimitParam(qs)), 0))),
                   [keyword |-> keyword])

\* The try block of do_GET: the first branch whose test the path passes
Route(t, path, qs, fault) ==
    IF path = P_recent THEN Recent(t, qs, fault)
    ELSE IF StartsWith(path, P_author_)
    THEN ByAuthor(t, unquote(AfterPrefix(path, P_author_)), fault)
    ELSE IF /\ StartsWith(path, P_papers_)
            /\ ~StartsWith(path, P_keyword_)
            /\ ~StartsWith(path, P_search)
    THEN ById(t, unquote(AfterPrefix(path, P_papers_)), fault)
    ELSE IF path = P_search THEN Search(t, qs, fault)
    ELSE IF StartsWith(path, P_keyword_)
    THEN ByKeyword(t, unquote(AfterPrefix(path, P_keyword_)), qs, fault)
    ELSE Sent(404, [error |-> "Unknown endpoint", path |-> path])

\* except Exception as e: self._send_json(500, ...)
ServerError(message) ==
    [status |-> 500,
     body |-> [error |-> "Internal server error", message |-> message]]

Answer(r) ==
    IF r.raises THEN ServerError(r.message)
    ELSE [status |-> r.status, body |-> r.body]

do_GET(t, request, fault) == Answer(Route(t, request.path, request.qs, fault))

\* The table a run over a feed of ingestible records leaves, from empty
RECURSIVE PutAll(_, _)
PutAll(t, items) ==
    IF items = <<>> THEN t ELSE PutAll(TablePut(t, items[1]), Tail(items))

RECURSIVE Stored(_)
Stored(feed) ==
    IF feed = <<>> THEN EmptyBag
    ELSE PutAll(Stored(SubSeq(feed, 1, Len(feed) - 1)),
                PaperItems(feed[Len(feed)]))

IngestibleFeeds(records) ==
    {feed \in Batches(records) :
        \A i \in DOMAIN feed :
            resolve_arxiv_id(feed[i]) # EmptyStr /\ ~RaisesInRecord(feed[i])}

\* The query strings of the requests, as parse_qs returns them
NoParams == <<>>

JustCategory == [category |-> cs_AI]

QueryStrings ==
    { NoParams,
      JustCategory,
      [category |-> cs_AI, limit |-> <<"1">>],
      [category |-> cs_AI, limit |-> <<"0">>],
      [category |-> cs_AI, limit |-> <<"a","b","c">>],
      [limit |-> <<"a","b","c">>],
      [limit |-> <<"1">>],
      [category |-> cs_AI, start |-> D_2024_01_02],
      [category |-> cs_AI, start |-> D_2024_01_02, end |-> D_2024_01_03] }

Paths ==
    { P_recent,
      P_search,
      P_author_ \o <<"X","%","2","0","Y">>,
      P_papers_ \o S_B2,
      P_papers_ \o S_Z9,
      P_keyword_ \o <<"N","e","t","s">>,
      <<"/","h","e","a","l","t","h">> }

Requests == [path : Paths, qs : QueryStrings]

\* The server runs against the table that complete runs of the loader left.
InitApi ==
    /\ pool \in Pools
    /\ table \in {Stored(feed) : feed \in IngestibleFeeds(pool)}
    /\ IdleProcesses
    /\ IdleKeywords
    /\ IdleApi
    /\ TableReady

\* One GET request is served, the store failing its query or not.
HandleRequest(request, fault) ==
    /\ http_request' = request
    /\ http_fault' = fault
    /\ http_response' = do_GET(table, request, fault)
    /\ UNCHANGED <<loaderVars, kwVars, ddlVars>>

NextApi == \E request \in Requests, fault \in Faults : HandleRequest(request, fault)

SpecApi == InitApi /\ [][NextApi]_vars

(***************************************************************************)
(* Properties                                                              *)
(***************************************************************************)

Finished(p) == pc[p] \in {"done", "failed"}

\* The number of stored items of one kind
CountKind(t, kind) ==
    BagCardinality([x \in {y \in BagToSet(t) : y.item_type = kind} |-> t[x]])

\* The attributes every item copies from its paper
CopiedAttrs ==
    {"title", "abstract", "authors", "categories", "keywords", "published"}

SameCopies(x, y) == \A a \in CopiedAttrs : x[a] = y[a]

\* No key is stored twice.
NoDuplicateKeys(t) ==
    /\ \A x \in BagToSet(t) : t[x] = 1
    /\ \A x, y \in BagToSet(t) : TableKey(x) = TableKey(y) => x = y

\* A record the loop turns into items
Ingestible(r) == resolve_arxiv_id(r) # EmptyStr /\ ~RaisesInRecord(r)

\* The first run of the loader, over a feed of one ingestible record, is
\* over: that paper was ingested into an empty table.
OnePaperIngested ==
    /\ runs[1] = 1
    /\ pc[1] = "done"
    /\ Len(papers[1]) = 1
    /\ Ingestible(papers[1][1])

KindCountsAre(t, c, a, k) ==
    /\ CountKind(t, "CATEGORY") = c
    /\ CountKind(t, "AUTHOR") = a
    /\ CountKind(t, "KEYWORD") = k
    /\ CountKind(t, "PAPER") = 1
    /\ BagCardinality(t) = c + a + k + 1

\* The trimmed text of the author entries that are not blank
NonBlankAuthors(n) ==
    {i \in 1..Len(n.authors) : strip(PyStr(n.authors[i])) # EmptyStr}

TrimmedAuthors(n) ==
    {strip(PyStr(n.authors[i])) : i \in NonBlankAuthors(n)}

FormattedCategories(n) ==
    {PyStr(n.categories[i]) : i \in 1..Len(n.categories)}

\* c, a, k counted over the list entries, repeated ones included
EntryCounts(t, n) ==
    KindCountsAre(t, Len(n.categories), Cardinality(NonBlankAuthors(n)),
                  Len(n.keywords))

\* c, a, k counted over the distinct entries
DistinctCounts(t, n) ==
    KindCountsAre(t, Cardinality(FormattedCategories(n)),
                  Cardinality(TrimmedAuthors(n)), Cardinality(Range(n.keywords)))

HasRepeats(n) ==
    /\ Len(n.categories) > Cardinality(FormattedCategories(n))
    /\ Cardinality(NonBlankAuthors(n)) > Cardinality(TrimmedAuthors(n))
    /\ Len(n.authors) > Cardinality(NonBlankAuthors(n))

\* C1 as stated: a paper with c category entries, a non-blank author entries
\* and k keywords, ingested into an empty table, leaves c + a + k + 1 items
\* (c CATEGORY, a AUTHOR, k KEYWORD, one identifier item), repeated entries
\* included.
C1_ItemCountPerEntry ==
    OnePaperIngested => EntryCounts(table, Normalize(papers[1][1]))

\* C1 amended: a paper ingested into an empty table leaves c + a + k + 1
\* items, where c counts the distinct category entries, a the distinct
\* trimmed non-blank author entries and k the keywords.
C1_ItemCountPerDistinctEntry ==
    OnePaperIngested => DistinctCounts(table, Normalize(papers[1][1]))

C1_Witness ==
    /\ OnePaperIngested
    /\ HasRepeats(Normalize(papers[1][1]))
    /\ BagCardinality(table) = 4

\* C2: running the loader twice over the same feed leaves the table as the
\* first run left it, whatever the table held before, and no (PK, SK) pair
\* is ever stored twice.
C2_Idempotent ==
    /\ NoDuplicateKeys(table)
    /\ (runs[1] >= 2 /\ Finished(1) /\ papers[1] = prevPapers)
          => table = startTable

C2_Witness ==
    /\ runs[1] = 3
    /\ pc[1] = "done"
    /\ papers[1] = prevPapers
    /\ Len(papers[1]) = 2
    /\ stats[1].total_items >= 4
    /\ table = startTable

\* The second of two consecutive runs, each over one version of the same
\* paper, is over.
Reingested ==
    /\ runs[1] >= 2
    /\ pc[1] = "done"
    /\ Len(papers[1]) = 1
    /\ Len(prevPapers) = 1
    /\ Ingestible(papers[1][1])
    /\ Ingestible(prevPapers[1])
    /\ resolve_arxiv_id(papers[1][1]) = resolve_arxiv_id(prevPapers[1])

AllItemsCarry(t, n) ==
    \A x \in BagToSet(t) :
        x.arxiv_id = n.arxiv_id => SameCopies(x, base_attrs(n))

\* C3: after a paper is ingested again with corrected attributes, every
\* stored item of its identifier carries the attributes of the new version.
C3_ReingestOverwritesAll ==
    Reingested => AllItemsCarry(table, Normalize(papers[1][1]))

\* Every identifier occurs once in the feed.
UniqueIds(feed) ==
    \A i, k \in 1..Len(feed) :
        (i # k /\ resolve_arxiv_id(feed[i]) # EmptyStr)
            => resolve_arxiv_id(feed[i]) # resolve_arxiv_id(feed[k])

\* C4: while a feed in which every identifier occurs once is ingested into
\* an empty table, any two stored items with the same arxiv_id carry the
\* same title, abstract, authors, categories, keywords and published.
C4_CopiesAgree ==
    (runs[1] = 1 /\ UniqueIds(papers[1]))
        => \A x, y \in BagToSet(table) :
              x.arxiv_id = y.arxiv_id => SameCopies(x, y)

C4_Witness ==
    /\ runs[1] = 1
    /\ pc[1] = "exitflush"
    /\ Len(papers[1]) = 2
    /\ UniqueIds(papers[1])
    /\ \E x, y \in BagToSet(table) : x # y /\ x.arxiv_id = y.arxiv_id
    /\ \E x, y \in BagToSet(table) : x.arxiv_id # y.arxiv_id

\* The published date of the paper an item was made from: the first ten
\* characters of its published attribute in every branch of
\* normalize_published
PublishedDate(x) == Prefix(x.published, 10)

QueryDates == {EpochDate, D_2024_01_02, D_2024_01_03}

QueryCategories == {cs_AI, cs_LG}

CategoryItems(t, category) ==
    {x \in BagToSet(t) :
        x.item_type = "CATEGORY" /\ x.PK = CATEGORY_ \o category}

InRange(d, start_date, end_date) == StrLeq(start_date, d) /\ StrLeq(d, end_date)

\* The query returns exactly the CATEGORY items whose date is in the range.
RangeQueryExact(t, category, start_date, end_date, result) ==
    \A x \in CategoryItems(t, category) :
        InRange(PublishedDate(x), start_date, end_date) <=> x \in Range(result)

\* C5: the date-range query of a category returns the CATEGORY item of every
\* stored paper of the category whose published date is between start_date
\* and end_date, both included, whatever its identifier, and of no other.
C5_DateRangeInclusive ==
    pc[1] \in {"idle", "done", "failed"}
        => \A c \in QueryCategories : \A s, e \in QueryDates :
              RangeQueryExact(table, c, s, e,
                              query_papers_in_date_range(table, c, s, e))

KeyedKinds == {"CATEGORY", "AUTHOR", "KEYWORD"}

\* The calendar day a published attribute denotes, as year * 10000 + month *
\* 100 + day: an ISO date or timestamp, or month/day/year; -1 otherwise
UsDateShape(s) ==
    /\ Len(s) = 10
    /\ \A i \in 1..10 : IF i \in {3, 6} THEN s[i] = "/" ELSE IsDigit(s[i])

IsoDay(d) == IF d.ok THEN 10000 * d.y + 100 * d.mo + d.d ELSE -1

CalendarDay(s) ==
    IF UsDateShape(s)
    THEN 10000 * Num(SubSeq(s, 7, 10)) + 100 * Num(SubSeq(s, 1, 2))
            + Num(SubSeq(s, 4, 5))
    ELSE IF Len(s) >= 10 THEN IsoDay(ParseDate(SubSeq(s, 1, 10))) ELSE -1

\* The published attribute is the default or was parsed by the normaliser.
IsoDated(x) == Len(x.published) >= 10 /\ ParseDate(PublishedDate(x)).ok

\* x is published before y, identifiers deciding between equal days
Earlier(x, y) ==
    \/ CalendarDay(x.published) < CalendarDay(y.published)
    \/ /\ CalendarDay(x.published) = CalendarDay(y.published)
       /\ StrLess(x.arxiv_id, y.arxiv_id)

SortKeyShape(t) ==
    \A x \in BagToSet(t) :
        x.item_type \in KeyedKinds
            => x.SK = PublishedDate(x) \o <<"#">> \o x.arxiv_id

SamePartition(x, y) ==
    x.item_type \in KeyedKinds /\ y.item_type \in KeyedKinds /\ x.PK = y.PK

\* C6 as stated: every CATEGORY, AUTHOR and KEYWORD item has sort key
\* <publishedDate>#<id>, and within a partition the order of the sort keys
\* is the chronological order of the published dates, equal dates ordered
\* by identifier, for every published value.
C6_SortKeyChronological ==
    /\ SortKeyShape(table)
    /\ \A x, y \in BagToSet(table) :
          SamePartition(x, y) => (StrLess(x.SK, y.SK) <=> Earlier(x, y))

\* C6 amended: the same, for the items whose published value was absent or
\* was parsed as an ISO date or timestamp.
C6_SortKeyChronologicalIso ==
    /\ SortKeyShape(table)
    /\ \A x, y \in BagToSet(table) :
          (SamePartition(x, y) /\ IsoDated(x) /\ IsoDated(y))
              => (StrLess(x.SK, y.SK) <=> Earlier(x, y))

C6_Witness ==
    /\ \E x, y \in BagToSet(table) :
          /\ SamePartition(x, y) /\ IsoDated(x) /\ IsoDated(y)
          /\ CalendarDay(x.published) < CalendarDay(y.published)
          /\ x.published = EpochIso
    /\ \E x, y \in BagToSet(table) :
          /\ SamePartition(x, y) /\ IsoDated(x) /\ IsoDated(y)
          /\ CalendarDay(x.published) = CalendarDay(y.published)
          /\ x.published # y.published

QueryIds == {S_A1, S_B1, S_B2, S_C3, S_D1, S_D2, S_D3, S_E5, S_Tilde1, S_Z9}

IdItems(t, arxiv_id) ==
    [x \in {y \in BagToSet(t) :
               y.item_type = "PAPER" /\ y.arxiv_id = arxiv_id} |-> t[x]]

\* The by-identifier lookup of one identifier: at most one identifier item
\* is stored; it is the result when there is one, and otherwise the result
\* is None and the HTTP answer is 404 "Paper not found".
LookupAnswers(t, arxiv_id, found, response) ==
    /\ BagCardinality(IdItems(t, arxiv_id)) <= 1
    /\ IF BagToSet(IdItems(t, arxiv_id)) = {}
       THEN /\ found = None
            /\ response.status = 404
            /\ response.body.error = "Paper not found"
       ELSE /\ found \in BagToSet(IdItems(t, arxiv_id))
            /\ response = [status |-> 200, body |-> found]

\* Every paper of a finished feed is found.
IngestedAreFound(t, feed) ==
    \A i \in 1..Len(feed) :
        Ingestible(feed[i])
            => get_paper_by_id(t, resolve_arxiv_id(feed[i])) # None

\* C7: in every reachable table the by-identifier query matches 0 or 1 item
\* and returns it, or None / 404 when there is none; after a run that
\* finished, every paper of its feed is found.
C7_LookupZeroOrOne ==
    /\ \A a \in QueryIds :
          LookupAnswers(table, a, get_paper_by_id(table, a),
                        do_GET_paper(table, a))
    /\ pc[1] = "done" => IngestedAreFound(table, papers[1])

C7_Witness ==
    /\ runs[1] = 3
    /\ pc[1] = "done"
    /\ get_paper_by_id(table, S_Tilde1) # None
    /\ get_paper_by_id(table, S_B1) # None
    /\ get_paper_by_id(table, S_B2) = None
    /\ do_GET_paper(table, S_Z9).status = 404

(***************************************************************************)
(* extract_keywords, stated over the text itself                           *)
(***************************************************************************)

\* The maximal runs of letters of a text, as <<first, last>> positions
LetterRuns(s) ==
    {r \in (1..Len(s)) \X (1..Len(s)) :
        /\ r[1] <= r[2]
        /\ \A i \in r[1]..r[2] : IsAlpha(s[i])
        /\ (r[1] = 1 \/ ~IsAlpha(s[r[1] - 1]))
        /\ (r[2] = Len(s) \/ ~IsAlpha(s[r[2] + 1]))}

\* The runs of the lowercased text that are not stop words
KeptRuns(s) ==
    {r \in LetterRuns(s) : SubSeq(lower(s), r[1], r[2]) \notin STOPWORDS}

WordsOf(s) == {SubSeq(lower(s), r[1], r[2]) : r \in KeptRuns(s)}

Occurrences(s, w) == {r \in KeptRuns(s) : SubSeq(lower(s), r[1], r[2]) = w}

Frequency(s, w) == Cardinality(Occurrences(s, w))

FirstAt(s, w) ==
    CHOOSE i \in {r[1] : r \in Occurrences(s, w)} :
        \A r \in Occurrences(s, w) : i <= r[1]

\* v ranks before w: more frequent, or as frequent and met first
RanksBefore(s, v, w) ==
    \/ Frequency(s, v) > Frequency(s, w)
    \/ Frequency(s, v) = Frequency(s, w) /\ FirstAt(s, v) < FirstAt(s, w)

IsLowercaseWord(w) == w # <<>> /\ \A i \in 1..Len(w) : w[i] \in Range(LowerLetters)

KeywordsCorrect(s, n, result) ==
    /\ \A i \in 1..Len(result) :
          /\ result[i] \in WordsOf(s)
          /\ result[i] \notin STOPWORDS
          /\ IsLowercaseWord(result[i])
    /\ \A i, k \in 1..Len(result) : i # k => result[i] # result[k]
    /\ Len(result) = Min(n, Cardinality(WordsOf(s)))
    /\ \A i, k \in 1..Len(result) :
          i < k => RanksBefore(s, result[i], result[k])
    /\ \A w \in WordsOf(s) \ Range(result) :
          \A i \in 1..Len(result) : RanksBefore(s, result[i], w)
    /\ WordsOf(s) = {} => result = <<>>

\* C8: extract_keywords returns distinct lowercase alphabetic tokens of the
\* abstract, none a stop word, min(N, number of distinct non-stop-word
\* tokens) of them, by descending frequency with ties in first-occurrence
\* order, and the empty list for an empty or all-stop-word text.
C8_KeywordsRanked ==
    kw_done => KeywordsCorrect(kw_abstract, kw_max, kw_result)

\* A tie decided by first occurrence, a cut at max_keywords, a capital
\* letter and a stop word
C8_Witness ==
    /\ kw_done
    /\ kw_abstract = <<"N"," ","a"," ","n","n">>
    /\ kw_max = 1
    /\ kw_result = <<<<"n">>>>

(***************************************************************************)
(* The end-to-end scenario and two concurrent loaders                      *)
(***************************************************************************)

ScenarioIngested ==
    /\ runs[1] = 1
    /\ pc[1] = "done"
    /\ papers[1] = <<ScenarioPaper>>

\* C9 as stated: the scenario paper A1 leaves 2 CATEGORY items, 1 AUTHOR
\* item, at most 2 KEYWORD items and 1 identifier item, at most 6 items.
C9_ScenarioAtMostSix ==
    ScenarioIngested
        => /\ CountKind(table, "CATEGORY") = 2
           /\ CountKind(table, "AUTHOR") = 1
           /\ CountKind(table, "KEYWORD") <= 2
           /\ CountKind(table, "PAPER") = 1
           /\ BagCardinality(table) <= 6

ScenarioKeywordKeys ==
    {KEYWORD_ \o <<"d","e","e","p">>, KEYWORD_ \o <<"l","e","a","r","n","i","n","g">>, KEYWORD_ \o <<"n","e","t","w","o","r","k","s">>}

\* C9 amended: the scenario paper A1 leaves 2 CATEGORY items, 1 AUTHOR
\* item, 3 KEYWORD items (deep, learning, networks) and 1 identifier item,
\* 7 items in all.
C9_ScenarioSevenItems ==
    ScenarioIngested
        => /\ KindCountsAre(table, 2, 1, 3)
           /\ {x.PK : x \in {y \in BagToSet(table) : y.item_type = "KEYWORD"}}
                 = ScenarioKeywordKeys

C9_Witness == ScenarioIngested /\ BagCardinality(table) = 7

\* C10: when two loaders that ingest the same paper at the same time have
\* both finished, the table holds exactly the items one loader alone
\* writes, each (PK, SK) pair once.
C10_ConcurrentConverge ==
    (\A p \in Procs : Finished(p))
        => table = refTable /\ NoDuplicateKeys(table)

C10_Witness ==
    /\ \A p \in Procs : pc[p] = "done"
    /\ papers[1] = <<ScenarioPaper>>
    /\ BagCardinality(table) = 7
    /\ table = refTable


(***************************************************************************)
(* C11: a failed write                                                     *)
(***************************************************************************)

Keys(t) == {TableKey(x) : x \in BagToSet(t)}

\* The items of t that other items of t show to be incomplete: an item of a
\* paper whose identifier item is not stored.
PartialPapers(t) ==
    {x \in BagToSet(t) :
        /\ x.item_type \in KeyedKinds
        /\ ~\E y \in BagToSet(t) :
               y.item_type = "PAPER" /\ y.arxiv_id = x.arxiv_id}

\* C11: when a write of a run fails, the run ends with the exception
\* propagated out of main (it is not swallowed and the loop does not go on),
\* and the table is exactly the table at the moment of the failure: every
\* item written before it, by this run or an earlier one, is still stored
\* unchanged, and no key that was stored when the run started is gone.
C11_FailureKeepsWrites ==
    \A p \in Procs :
        failedAt[p] # <<>> =>
            /\ pc[p] = "failed"
            /\ raised[p]
            /\ table = failedAt[p][1]
            /\ Keys(startTable) \subseteq Keys(table)

\* A run failed after it had written some items of a paper but not all.
C11_Witness ==
    /\ failedAt[1] # <<>>
    /\ pc[1] = "failed"
    /\ table # startTable
    /\ PartialPapers(table) # {}

(***************************************************************************)
(* C12: optional fields                                                    *)
(***************************************************************************)

\* The positions of the feed whose record has an identifier
Identified(feed) ==
    {i \in DOMAIN feed : resolve_arxiv_id(feed[i]) # EmptyStr}

\* C12 as stated: whatever combination of present, absent or null title,
\* abstract, authors, categories and published a record with an identifier
\* has, its normalisation yields a paper and never aborts the run: no run
\* ends with an exception, and a finished run has turned every record with
\* an identifier into a paper.
C12_OptionalFieldsTolerated ==
    /\ ~raised[1]
    /\ pc[1] # "failed"
    /\ pc[1] = "done" =>
          stats[1].num_papers = Cardinality(Identified(papers[1]))


(***************************************************************************)
(* C13, C14: the responses of the HTTP handler                             *)
(***************************************************************************)

\* C13 as stated: the 500 response is one generic error object, the same
\* for every exception: whatever the query raised, the response sent is the
\* response any other exception would have produced.
C13_GenericServerError ==
    http_response.status = 500 =>
        \A e \in QueryExceptions : http_response = ServerError(e)

\* The endpoints that take parameters
TakesLimit(path) == path = P_recent \/ StartsWith(path, P_keyword_)

\* A request to a known endpoint with a missing or malformed parameter
Malformed(request) ==
    \/ /\ request.path = P_recent
       /\ Missing(request.qs, "category")
    \/ /\ request.path = P_search
       /\ \E k \in {"category", "start", "end"} : Missing(request.qs, k)
    \/ /\ TakesLimit(request.path)
       /\ ~IsIntLiteral(LimitParam(request.qs))

\* C14 as stated: a request to a known endpoint whose parameters are
\* missing or malformed (missing category, start or end, a non-integer
\* limit) is answered with status 400, whatever the store does.
C14_MalformedIsBadRequest ==
    (http_response # NoResponse /\ Malformed(http_request)) =>
        http_response.status = 400


(***************************************************************************)
(* C15: identifier resolution                                              *)
(***************************************************************************)

\* A field that holds no non-blank value: absent, null, empty or whitespace
Blank(v) == v.t = "null" \/ (v.t = "str" /\ strip(v.v) = EmptyStr)

\* The first non-blank value among arxiv_id and id, trimmed; empty if none
FirstNonBlank(r) ==
    IF ~Blank(Get(r, "arxiv_id")) THEN strip(PyStr(Get(r, "arxiv_id")))
    ELSE IF ~Blank(Get(r, "id")) THEN strip(PyStr(Get(r, "id")))
    ELSE EmptyStr

\* C15 as stated: the identifier of a record is the first present,
\* non-blank value among arxiv_id and id, trimmed; a record whose arxiv_id
\* is absent, empty or whitespace-only and whose id is non-blank is ingested
\* under its trimmed id, and a record is skipped only when both are blank.
C15_FirstNonBlankIdentifier ==
    pc[1] = "done" =>
        \A i \in DOMAIN papers[1] :
            /\ resolve_arxiv_id(papers[1][i]) = FirstNonBlank(papers[1][i])
            /\ FirstNonBlank(papers[1][i]) # EmptyStr =>
                  IdItems(table, FirstNonBlank(papers[1][i])) # EmptyBag


(***************************************************************************)
(* C16: skipped records                                                    *)
(***************************************************************************)

\* The number of records of a feed that have no identifier
SkippedIn(feed) == Len(feed) - Cardinality(Identified(feed))

\* The feeds of the pool over which a run completes
CompletedFeeds ==
    {feed \in Batches(pool) :
        \A i \in Identified(feed) : ~RaisesInRecord(feed[i])}

RECURSIVE CountAll(_, _)
CountAll(s, items) ==
    IF items = <<>> THEN s ELSE CountAll(CountItem(s, items[1]), Tail(items))

\* The counters at the end of a complete run over a feed
RECURSIVE StatsOf(_)
StatsOf(feed) ==
    IF feed = <<>> THEN ZeroStats
    ELSE IF resolve_arxiv_id(feed[Len(feed)]) = EmptyStr
    THEN StatsOf(SubSeq(feed, 1, Len(feed) - 1))
    ELSE CountAll([StatsOf(SubSeq(feed, 1, Len(feed) - 1))
                      EXCEPT !.num_papers = @ + 1],
                  PaperItems(feed[Len(feed)]))

\* C16 as stated: a record with no identifier is skipped without stopping
\* the run.  At the end of a run the papers counted are the records with an
\* identifier, every one of them has its identifier item stored, every
\* stored item belongs to one of them, and the report tells how many
\* records were skipped: two runs with the same report skipped the same
\* number of records.
C16_SkippedCountReported ==
    pc[1] = "done" =>
        /\ stats[1].num_papers = Cardinality(Identified(papers[1]))
        /\ stats[1] = StatsOf(papers[1])
        /\ \A i \in Identified(papers[1]) :
              IdItems(table, resolve_arxiv_id(papers[1][i])) # EmptyBag
        /\ runs[1] = 1 =>
              \A x \in BagToSet(table) :
                  \E i \in Identified(papers[1]) :
                      x.arxiv_id = resolve_arxiv_id(papers[1][i])
        /\ \A feed \in CompletedFeeds :
              Report(StatsOf(feed)) = Report(stats[1])
                  => SkippedIn(feed) = SkippedIn(papers[1])


(***************************************************************************)
(* C17: ensure_table_exists                                                *)
(***************************************************************************)

\* ensure_table_exists has returned to main.
Returned(p) ==
    pc[p] \in {"ready", "loop", "put", "flush", "exitflush", "done", "failed"}

\* The call of ensure_table_exists in progress, or the last one, polled.
Polled(p) == gsi_statuses[p] # NoStatuses

\* C17: the table and its three indexes are created only when the table is
\* absent.  On that path the call returns only after a poll that saw every
\* index ACTIVE, and it does not sleep after such a poll, so that no item is
\* stored while an index is not ACTIVE; when the table exists the call
\* returns it without a create request and without a poll.
C17_EnsureTableExists ==
    /\ \A p \in Procs :
          /\ pc[p] = "create" => tableStatus = "absent"
          /\ pc[p] \in {"wait", "poll", "sleep"} => tableStatus # "absent"
          /\ (Returned(p) /\ Polled(p)) => AllActive(gsi_statuses[p])
          /\ pc[p] = "sleep" => ~AllActive(gsi_statuses[p])
          /\ Returned(p) => (tableStatus = "ACTIVE" /\ AllActive(gsiStatus))
    /\ table # EmptyBag => AllActive(gsiStatus)

\* The table was absent: the run created it, waited for its indexes and
\* then stored its items.
C17_Witness ==
    /\ Polled(1)
    /\ pc[1] = "done"
    /\ table # EmptyBag
    /\ runs[1] = 1

\* The table existed: the call returned without creating or polling, and
\* the run stored its items.
C17_WitnessExisting ==
    /\ ~Polled(1)
    /\ pc[1] = "done"
    /\ table # EmptyBag
    /\ runs[1] = 1


(***************************************************************************)
(* C18: every paper is found through each access pattern                   *)
(***************************************************************************)

UpperChar(c) ==
    IF \E i \in 1..26 : LowerLetters[i] = c
    THEN UpperLetters[CHOOSE i \in 1..26 : LowerLetters[i] = c]
    ELSE c

upper(s) == [i \in 1..Len(s) |-> UpperChar(s[i])]

\* One of the items is an item of the paper n, with its attributes.
HasItemOf(items, n) ==
    \E k \in 1..Len(items) :
        /\ items[k].arxiv_id = n.arxiv_id
        /\ items[k].title = n.title
        /\ items[k].categories = n.categories
        /\ items[k].authors = n.authors
        /\ items[k].keywords = n.keywords

AllOfKind(items, kind) ==
    \A k \in 1..Len(items) : items[k].item_type = kind

\* A query answer: it holds an item of n and only items of the kind
Answers(items, n, kind) == HasItemOf(items, n) /\ AllOfKind(items, kind)

\* The paper n is found by identifier, by each of its categories, by each
\* of its trimmed non-blank authors and by each of its keywords, in lower
\* and in upper case; limit is at least the size of any partition.
Retrievable(t, n, limit) ==
    /\ get_paper_by_id(t, n.arxiv_id) # None
    /\ Answers(<<get_paper_by_id(t, n.arxiv_id)>>, n, "PAPER")
    /\ \A c \in FormattedCategories(n) :
          Answers(query_recent_in_category(t, c, limit), n, "CATEGORY")
    /\ \A a \in TrimmedAuthors(n) :
          Answers(query_papers_by_author(t, a), n, "AUTHOR")
    /\ \A i \in 1..Len(n.keywords) :
          /\ Answers(query_papers_by_keyword(t, n.keywords[i], limit), n,
                     "KEYWORD")
          /\ Answers(query_papers_by_keyword(t, upper(n.keywords[i]), limit),
                     n, "KEYWORD")

\* No later record of the feed has the identifier of record i.
LatestOfId(feed, i) ==
    \A j \in DOMAIN feed :
        j > i => resolve_arxiv_id(feed[j]) # resolve_arxiv_id(feed[i])

\* The keys of the items of a record
KeysOfRecord(r) ==
    {TableKey(PaperItems(r)[k]) : k \in 1..Len(PaperItems(r))}

\* No record of the feed with another identifier has an item with a key of
\* record i.
KeysItsOwn(feed, i) ==
    \A j \in DOMAIN feed :
        (Ingestible(feed[j])
            /\ resolve_arxiv_id(feed[j]) # resolve_arxiv_id(feed[i]))
        => KeysOfRecord(feed[j]) \cap KeysOfRecord(feed[i]) = {}

\* C18 as stated: after a completed run every paper of its feed is found
\* through each access pattern built from its own values.
C18_EveryPaperRetrievable ==
    pc[1] = "done" =>
        \A i \in DOMAIN papers[1] :
            Ingestible(papers[1][i])
                => Retrievable(table, Normalize(papers[1][i]),
                               BagCardinality(table))

\* C18 for the papers that nothing ingested with them replaces: after a
\* completed run, a paper of the feed that is the last record with its
\* identifier, and whose item keys no paper with another identifier shares,
\* is found by identifier, by each category, by each trimmed non-blank
\* author and by each keyword in either letter case, each answer holding
\* only items of the matching kind.
C18_CurrentPaperRetrievable ==
    pc[1] = "done" =>
        \A i \in DOMAIN papers[1] :
            (/\ Ingestible(papers[1][i])
             /\ LatestOfId(papers[1], i)
             /\ KeysItsOwn(papers[1], i))
                => Retrievable(table, Normalize(papers[1][i]),
                               BagCardinality(table))

\* A run on a table that already held items is complete, and a paper of
\* its feed with categories, authors and keywords is found by all of them.
C18_Witness ==
    /\ pc[1] = "done"
    /\ startTable # EmptyBag
    /\ \E i \in DOMAIN papers[1] :
          /\ Ingestible(papers[1][i])
          /\ LatestOfId(papers[1], i)
          /\ KeysItsOwn(papers[1], i)
          /\ FormattedCategories(Normalize(papers[1][i])) # {}
          /\ TrimmedAuthors(Normalize(papers[1][i])) # {}
          /\ Normalize(papers[1][i]).keywords # <<>>
          /\ Retrievable(table, Normalize(papers[1][i]), BagCardinality(table))

=============================================================================
